---- MODULE Spec2Model ----
(***************************************************************************)
(* Model of the Terabox-Drive download bot: the per-user quota store       *)
(* (database/users.py), the two submission handlers                        *)
(* (handlers/link_handler.py, handlers/file_handler.py) with the folder    *)
(* processor, and the scratch directories they use (utils/helpers.py).     *)
(*                                                                         *)
(* Every handler invocation is a coroutine of the chat client; the client  *)
(* dispatches each incoming message to its own coroutine, so two           *)
(* invocations interleave at their await points.  One action below is the  *)
(* code that runs between two awaits.                                      *)
(*                                                                         *)
(* The document store is taken to be reachable (its calls do not raise);   *)
(* the chat transport's edit_text may raise at each call that the code     *)
(* does not wrap in its own try/except.                                    *)
(***************************************************************************)
EXTENDS Integers, Sequences, FiniteSets, TLC

\* ------------------------------------------------------------------ bounds
MaxLinks == 2          \* tokens in one message or batch file
MaxFolderFiles == 2    \* entries a folder listing returns
MaxTime == 1           \* days the model lets pass
MaxUsage == 7          \* no submission is modelled once today's count is this high
MaxSuffix == 2
MaxFiles == 3
MaxMessages == 4        \* messages the model lets the started bot handle
MaxPins == 3            \* status messages left pinned in the chat
MaxBytes == 4           \* bytes transferred, and the small totals
MaxElapsed == 3         \* seconds since the transfer started
MaxSeconds == 18       \* seconds the model lets pass on the reporter's clock

\* --------------------------------------------------------------- constants
FREE_DAILY_LIMIT == 5
FREE_MAX_SIZE_MB == 200
PREMIUM_MAX_SIZE_MB == 4096

Users == {"u", "o"}
OWNER_IDS == {"o"}
Procs == {"p1", "p2"}
Handlers == {"links", "txt"}

NoRecord == -1         \* no document in the premium collection
NoFile == <<>>         \* file_path = None
GrantDays == {1}       \* the <days> argument of /premium
UsedAtStart == {3, 4}  \* today's count of the free user when the model starts

\* File sizes, in MB: within the free limit, above it, above the premium one.
Sizes == {FREE_MAX_SIZE_MB, FREE_MAX_SIZE_MB + 1, PREMIUM_MAX_SIZE_MB + 1}

\* ------------------------------------------------------------------- links
\* A token of a message or batch file, by the features the code tests:
\*   scheme   the text matches https?://...        (extract_links_from_text)
\*   host     which allow-list substring it holds  (is_gdrive_link, is_terabox_link)
\*   ext      its path ends in a direct extension  (is_direct_link)
\*   filelist it contains 'filelist'               (folder tests)
\* and by what the code does not look at:
\*   domain   the allow-list its domain belongs to, if any
\*   pathq    the 'path=' parameter it carries, if any
TB_FILE == [scheme |-> TRUE,  host |-> "terabox", ext |-> FALSE, filelist |-> FALSE,
            domain |-> "terabox", pathq |-> "none"]
TB_LIST == [scheme |-> TRUE,  host |-> "terabox", ext |-> FALSE, filelist |-> TRUE,
            domain |-> "terabox", pathq |-> "none"]
WEBPAGE == [scheme |-> TRUE,  host |-> "other",   ext |-> FALSE, filelist |-> FALSE,
            domain |-> "other", pathq |-> "none"]
JUNK    == [scheme |-> FALSE, host |-> "terabox", ext |-> FALSE, filelist |-> FALSE,
            domain |-> "terabox", pathq |-> "none"]
Tokens == {TB_FILE, TB_LIST, WEBPAGE, JUNK}

\* Every combination of the features: a URL whose domain is on an allow-list
\* holds that list's substring; a URL of another domain may hold one too, in its
\* path, in its query, or as the tail of a longer domain name.
Hosts == {"gdrive", "terabox", "other"}
Urls ==
    {l \in [scheme : BOOLEAN, host : Hosts, ext : BOOLEAN, filelist : BOOLEAN,
            domain : Hosts, pathq : {"none", "path=", "path=%2f"}] :
        l.domain # "other" => l.host = l.domain}

\* The messages and batch files one invocation may be given ...
Texts == UNION {[1..n -> Tokens] : n \in 0..MaxLinks}
\* ... and the one-token ones.
ShortTexts == {<<TB_FILE>>, <<TB_LIST>>, <<JUNK>>}

RECURSIVE SelectSeqBy(_, _)
SelectSeqBy(s, keep) ==
    IF s = <<>> THEN <<>>
    ELSE IF keep[Head(s)] THEN <<Head(s)>> \o SelectSeqBy(Tail(s), keep)
         ELSE SelectSeqBy(Tail(s), keep)

is_gdrive_link(l) == l.host = "gdrive"
is_terabox_link(l) == l.host = "terabox"
is_direct_link(l) == l.ext

\* re.findall(r'https?://[^\s<>"{}|\\^`\[\]]+', text)
extract_links_from_text(text) == SelectSeqBy(text, [t \in Urls |-> t.scheme])

IsSupported(l) == is_gdrive_link(l) \/ is_terabox_link(l) \/ is_direct_link(l)

\* the loop that fills supported_links
FilterSupported(links) == SelectSeqBy(links, [t \in Urls |-> IsSupported(t)])

\* download_and_upload_link: which retriever a supported link is given to
Dispatch(l) ==
    IF is_gdrive_link(l) THEN "gdrive"
    ELSE IF is_terabox_link(l) THEN "terabox"
    ELSE "direct"

\* The kind a link is taken for.
Classify(l) == IF IsSupported(l) THEN Dispatch(l) ELSE "unsupported"

\* The handler's folder test: 'filelist' in link.lower() or ('path=' in
\* link.lower() and '%2F' in link.lower()); the second disjunct looks for an
\* upper-case F in a lower-cased string and is never true.
HandlerIsFolder(l) == l.filelist

\* The retriever's folder test: 'filelist' in url_lower or ('path=' in url_lower
\* and 'path=%2f' not in url_lower).
RetrieverIsFolder(l) == l.filelist \/ l.pathq = "path="

VARIABLES
    now,             \* datetime.utcnow(), in days since the model's start
    premium,         \* db.premium: user -> expiry_date, or NoRecord
    usage,           \* db.daily_usage of today: user -> count
    dirs,            \* which users' scratch directories exist
    disk,            \* user -> the retrieved files in the user's directory
    pc,              \* where each handler invocation stands
    handler,         \* process_user_links ("links") or process_txt_file ("txt")
    user,            \* message.from_user.id
    can_use, remaining, is_premium,   \* locals of the handler
    supported_links, \* local of the handler
    i,               \* loop index over supported_links (from 1)
    results,         \* the handler's results dict
    folder_results,  \* process_terabox_folder's results dict
    nfiles, fi,      \* len(files) and the loop index of the folder processor
    file_path,       \* the path the retriever returned, or NoFile
    file_size,       \* os.path.getsize(file_path), in MB
    obs              \* history of the invocation: how many supported links it
                     \* was offered, how many items it attempted, how many failed,
                     \* were delivered, were charged, during which item /cancel was
                     \* sent (0: never), whether one of its is_premium calls
                     \* removed a stale premium record, how many files its size
                     \* checks rejected

\* The settings dialogue (handlers/settings.py) and the settings collection.
VARIABLES
    setting_states,  \* the module's dict: user -> the input awaited, or "none"
    settings,        \* db.settings: user -> the fields of the user's record that are set
    screen           \* user -> the keyboard the user's settings message shows

\* One call of the link classifier on a one-token message.
VARIABLES
    cl_url,          \* the token
    cl_kind,         \* the kind it was taken for
    cl_task          \* whether it became a task (an entry of supported_links)

\* One call of a retriever entry point (utils/downloader.py) and the destination
\* directory it writes to.
VARIABLES
    dl_dir,          \* the destination directory: path -> what the file holds
    dl_result,       \* the (success, file_path, error) the entry point returned
    tb_steps,        \* history of download_terabox: the probes, the scrape and
                     \* the stream download it made, in order
    dl_call          \* history of the call: the entry point, the response it got,
                     \* the paths that existed when it was made

\* The progress reporter (utils/progress.py) and the clock it reads.
VARIABLES
    clock,            \* time.time(), in seconds
    last_update_time, \* Progress.last_update_time
    should_update,    \* what the last call of should_update returned
    eta,              \* the eta the last progress callback computed
    eta_text,         \* format_time(eta), as the message shows it
    eta_args,         \* history: the current, total and elapsed it was given
    pr_obs            \* history: whether a call was made, a bit that every call
                      \* flips, when the last and the last but one call returned
                      \* true (Never: no such call), whether a call returned false

\* One call of the uploader (utils/uploader.py) and the thumbnails on disk.
VARIABLES
    thumbs,           \* the thumbnail files that exist: "custom", "generated"
    up_result,        \* the (success, error) that upload_file returned
    up_call           \* history of the call: the kind and size of the file, the
                      \* sends made, each with its outcome, the thumbnails that
                      \* existed when it was made

\* Process startup (database/main.py).
VARIABLES
    main_pc,          \* where main() stands
    connected,        \* what db.connect() and user_db.connect() returned, or
                      \* "not called"
    bot_running,      \* between app.start() and app.stop()
    handled           \* history: the messages handled, and those of them handled
                      \* while a store was not connected

\* the submission handlers' variables, but for the premium collection
\* The users collection and the entry of the handlers (database/mongodb.py).
VARIABLES
    users,            \* per user: "absent", or the is_banned of the document
    ban_standing,     \* history: ban_user changed the document of the user, and
                      \* unban_user was not applied since
    arrival           \* history: the last /start or submission, whether a ban
                      \* was standing when it arrived, whether the database
                      \* answered its calls and whether it was rejected

\* The status message of one submission at a time (handlers/file_handler.py,
\* handlers/link_handler.py).
VARIABLES
    sub_pc,           \* where the handler of the submission stands
    sub,              \* the submission: its handler, whether the chat is a
                      \* group, the path it left by, whether unpin raised
    status_pinned,    \* the status message of the submission is pinned
    left_pinned       \* status messages of earlier submissions still pinned

handlerv == <<now, usage, dirs, disk, pc, handler, user, can_use, remaining,
              is_premium, supported_links, i, results, folder_results, nfiles, fi,
              file_path, file_size, obs>>
settingsv == <<setting_states, settings, screen>>
classifierv == <<cl_url, cl_kind, cl_task>>
retrieverv == <<dl_dir, dl_result, dl_call, tb_steps>>
progressv == <<clock, last_update_time, should_update, pr_obs, eta, eta_text,
               eta_args>>
uploaderv == <<thumbs, up_result, up_call>>
startupv == <<main_pc, connected, bot_running, handled>>
banv == <<users, ban_standing, arrival>>
pinv == <<sub_pc, sub, status_pinned, left_pinned>>

\* what the submission handlers never touch
components == <<settingsv, classifierv, retrieverv, progressv, uploaderv,
                startupv, banv, pinv>>

\* what each of the other components never touches
besideSettings == <<classifierv, retrieverv, progressv, uploaderv, startupv,
    banv, pinv>>
besideClassifier == <<settingsv, retrieverv, progressv, uploaderv, startupv,
    banv, pinv>>
besideRetriever == <<settingsv, classifierv, progressv, uploaderv, startupv,
    banv, pinv>>
besideProgress == <<settingsv, classifierv, retrieverv, uploaderv, startupv,
    banv, pinv>>
besideStartup == <<settingsv, classifierv, retrieverv, progressv, uploaderv,
    banv, pinv>>
besideBan == <<settingsv, classifierv, retrieverv, progressv, uploaderv,
    startupv, pinv>>
besidePin == <<settingsv, classifierv, retrieverv, progressv, uploaderv,
    startupv, banv>>
besideUploader == <<settingsv, classifierv, retrieverv, progressv, startupv,
    banv, pinv>>

vars == <<now, premium, usage, dirs, disk, pc, handler, user, can_use, remaining,
          is_premium, supported_links, i, results, folder_results, nfiles, fi,
          file_path, file_size, obs, components>>

ZeroResults == [total |-> 0, success |-> 0, failed |-> 0]
ZeroObs == [offered |-> 0, attempted |-> 0, failed |-> 0, delivered |-> 0,
            charged |-> 0, cancelled |-> 0, cleared |-> FALSE, rejected |-> 0]

\* ------------------------------------------- the progress reporter's data
\* Progress.update_interval, and time.time() when the reporter is made.
update_interval == 8
StartTime == 100
Never == -1
NoCalls == [called |-> FALSE, flip |-> FALSE, true_at |-> Never,
            prev_true_at |-> Never, suppressed |-> FALSE]

\* ------------------------------------------------------ startup's data
\* The two store objects main() connects.
Stores == {"db", "user_db"}

\* A total that leaves minutes to wait.
BigTotal == 100

\* ------------------------------------------------- the users collection
Banned == "banned"
NotBanned == "not banned"
Absent == "absent"
Entries == {"start", "links", "txt"}
NoEntry == [handler |-> "none", user |-> "", standing |-> FALSE,
            db_ok |-> FALSE, rejected |-> FALSE]

\* --------------------------------------------------- the status message
\* The checks of process_txt_file between the pin and the loop, in order, and
\* the return each takes when it fails.
TxtChecks == <<"download", "links", "supported", "limit", "status">>
NoSubmission == [handler |-> "none", is_group |-> FALSE, exit |-> "none",
                 unpin_raised |-> FALSE]

\* ---------------------------------------------------- the uploader's data
\* The kinds helpers.get_file_type gives, and file sizes in MB on either side of
\* the 10 MB that send_photo takes.
FileTypes == {"video", "audio", "image", "document"}
PhotoLimitMB == 10
UploadSizes == {PhotoLimitMB - 1, PhotoLimitMB}
Send(shape, ok) == [shape |-> shape, ok |-> ok]
NoUpload == [called |-> FALSE, file_type |-> "document", file_size |-> 0,
             custom |-> FALSE, generated |-> FALSE, sends |-> <<>>, before |-> {}]

\* --------------------------------------------------- the retriever's data
\* File names: a stem and an extension (what os.path.splitext separates). The
\* stem "a:" holds a character that sanitize_filename replaces.
Stems == {"a", "a:", "a_"}
Exts == {"", ".mp4", ".safetensors"}
NoName == [stem |-> "", ext |-> ""]
Name(s, e) == [stem |-> s, ext |-> e]

\* len(ext), the dot included
ExtLen(e) == CASE e = "" -> 0 [] e = ".mp4" -> 4 [] e = ".safetensors" -> 12

\* Paths of the destination directory: a name and the counter appended to its
\* stem (0: none). A result carries such a path, no path, or the folder marker.
FilePath(name, n) == [kind |-> "file", name |-> name, n |-> n]
NoPath == [kind |-> "none", name |-> NoName, n |-> 0]
FolderMarker == [kind |-> "TERABOX_FOLDER:", name |-> NoName, n |-> 0]

Paths == {FilePath(Name(s, e), n) : s \in Stems, e \in Exts, n \in 0..MaxSuffix}

\* The three values every entry point returns.
Success(path) == [success |-> TRUE, file_path |-> path, error |-> "None"]
Failure(reason) == [success |-> FALSE, file_path |-> NoPath, error |-> reason]
NoResult == [success |-> FALSE, file_path |-> NoPath, error |-> "no call yet"]

\* What the server answers: requests.get raising or not, the status, the
\* Content-Disposition file name (NoName: no such header), the content type, the
\* extension of the URL's path, and the body. A "broken" body raises while it is
\* streamed, after its first chunks were written.
Response(raised, status, cd, ct, url_ext, body) ==
    [raised |-> raised, status |-> status, cd |-> cd, content_type |-> ct,
     url_ext |-> url_ext, body |-> body]
ContentTypes == {"video/mp4", "video/x-flv", "text/html", ""}

\* Responses that name the file, with a body that arrives whole.
NamedResponses ==
    {Response("no", 200, cd, ct, e, "media") :
        cd \in {Name("a", ".mp4"), Name("a:", ".mp4"), Name("a", ".safetensors")},
        ct \in {"video/mp4", ""}, e \in {"", ".mp4"}}

\* Responses that do not: requests that raise, statuses, bodies of every kind.
PlainResponses ==
    {Response(x, 404, NoName, "", "", "empty") : x \in {"Timeout", "ConnectionError"}}
    \cup {Response("no", 404, NoName, "text/html", "", "html")}
    \cup {Response("no", 206, NoName, "video/mp4", "", "media")}
    \cup {Response("no", 200, NoName, ct, "", b) :
            ct \in ContentTypes, b \in {"media", "html", "empty", "broken"}}

NoResponse == [raised |-> "no", status |-> 404, cd |-> NoName, content_type |-> "",
               url_ext |-> "", body |-> "empty"]
NoCall == [entry |-> "none", response |-> NoResponse, before |-> {}]

Init ==
    /\ now = 0
    /\ premium = [u \in Users |-> NoRecord]
    /\ \E n \in UsedAtStart :
        usage = [u \in Users |-> IF u \in OWNER_IDS THEN 0 ELSE n]
    /\ dirs = [u \in Users |-> FALSE]
    /\ disk = [u \in Users |-> {}]
    /\ pc = [p \in Procs |-> "idle"]
    /\ handler = [p \in Procs |-> "links"]
    /\ user = [p \in Procs |-> "u"]
    /\ can_use = [p \in Procs |-> FALSE]
    /\ remaining = [p \in Procs |-> 0]
    /\ is_premium = [p \in Procs |-> FALSE]
    /\ supported_links = [p \in Procs |-> <<>>]
    /\ i = [p \in Procs |-> 0]
    /\ results = [p \in Procs |-> ZeroResults]
    /\ folder_results = [p \in Procs |-> ZeroResults]
    /\ nfiles = [p \in Procs |-> 0]
    /\ fi = [p \in Procs |-> 0]
    /\ file_path = [p \in Procs |-> NoFile]
    /\ file_size = [p \in Procs |-> 0]
    /\ obs = [p \in Procs |-> ZeroObs]
    /\ setting_states = [u \in Users |-> "none"]
    /\ settings = [u \in Users |-> {}]
    /\ screen = [u \in Users |-> "none"]
    /\ cl_url = JUNK
    /\ cl_kind = "unsupported"
    /\ cl_task = FALSE
    /\ dl_dir = [p \in Paths |-> "absent"]
    /\ dl_result = NoResult
    /\ dl_call = NoCall
    /\ tb_steps = <<>>
    /\ clock = StartTime
    /\ last_update_time = 0
    /\ should_update = FALSE
    /\ pr_obs = NoCalls
    /\ eta = 0
    /\ eta_text = <<0, "s">>
    /\ eta_args = [shown |-> FALSE, current |-> 0, total |-> 0, elapsed |-> 0]
    /\ thumbs = {}
    /\ up_result = [success |-> FALSE, error |-> "no call yet"]
    /\ up_call = NoUpload
    /\ users = [u \in Users |-> Absent]
    /\ ban_standing = [u \in Users |-> FALSE]
    /\ arrival = NoEntry
    /\ sub_pc = "idle"
    /\ sub = NoSubmission
    /\ status_pinned = FALSE
    /\ left_pinned = 0
    /\ main_pc = "connect_db"
    /\ connected = [s \in Stores |-> "not called"]
    /\ bot_running = FALSE
    /\ handled = [total |-> 0, unconnected |-> 0]

\* ------------------------------------------------------------ the store
\* A comparison that takes a record expiring this very instant for valid.
PremiumValid_inclusive(rec, t) == rec # NoRecord /\ rec >= t

\* premium["expiry_date"] > datetime.utcnow()
PremiumValid(rec, t) == rec # NoRecord /\ rec > t

\* UserDatabase.is_premium: the value it returns ...
IsPremium(u) == u \in OWNER_IDS \/ PremiumValid(premium[u], now)

\* ... and the premium collection it leaves (remove_premium on a stale record).
PremiumAfterCheck(u) ==
    IF u \in OWNER_IDS \/ premium[u] = NoRecord \/ PremiumValid(premium[u], now)
    THEN premium
    ELSE [premium EXCEPT ![u] = NoRecord]

\* A can_use_bot that looks at the daily count before it looks at premium.
CanUseBot_quota_first(prem, used) ==
    IF FREE_DAILY_LIMIT - used <= 0 THEN <<FALSE, 0>>
    ELSE IF prem THEN <<TRUE, -1>>
    ELSE <<TRUE, FREE_DAILY_LIMIT - used>>

\* UserDatabase.can_use_bot: <<can_use, remaining>>
CanUseBot(prem, used) ==
    IF prem THEN <<TRUE, -1>>
    ELSE <<FREE_DAILY_LIMIT - used > 0, FREE_DAILY_LIMIT - used>>

\* A get_max_size that grants every user the premium limit.
GetMaxSize_premium_for_all(prem) == PREMIUM_MAX_SIZE_MB

\* UserDatabase.get_max_size, in MB
GetMaxSize(prem) == IF prem THEN PREMIUM_MAX_SIZE_MB ELSE FREE_MAX_SIZE_MB

\* UserDatabase.increment_usage: $inc count by 1, upsert
increment_usage(u) == [usage EXCEPT ![u] = @ + 1]

\* The history of one is_premium(user[p]) call made by invocation p.
ObsAfterCheck(o, p) ==
    [o EXCEPT ![p].cleared = @ \/ PremiumAfterCheck(user[p]) # premium]

\* A day passes.  daily_usage is keyed by (user_id, date): the counts of the
\* previous date are not read again, today's start from no document.
Tick ==
    /\ now < MaxTime
    /\ now' = now + 1
    /\ usage' = [u \in Users |-> 0]
    /\ UNCHANGED components
    /\ UNCHANGED <<premium, dirs, disk, pc, handler, user, can_use, remaining,
                   is_premium, supported_links, i, results, folder_results,
                   nfiles, fi, file_path, file_size, obs>>

\* /premium <user_id> <days>, sent by an owner: UserDatabase.add_premium
AddPremium(u) ==
    /\ \E d \in GrantDays : premium' = [premium EXCEPT ![u] = now + d]
    /\ premium' # premium
    /\ UNCHANGED components
    /\ UNCHANGED <<now, usage, dirs, disk, pc, handler, user, can_use, remaining,
                   is_premium, supported_links, i, results, folder_results,
                   nfiles, fi, file_path, file_size, obs>>

\* /removepremium <user_id>, sent by an owner: is_premium(target) clears a stale
\* record, remove_premium deletes a valid one.
RemovePremium(u) ==
    /\ premium[u] # NoRecord
    /\ premium' = [premium EXCEPT ![u] = NoRecord]
    /\ UNCHANGED components
    /\ UNCHANGED <<now, usage, dirs, disk, pc, handler, user, can_use, remaining,
                   is_premium, supported_links, i, results, folder_results,
                   nfiles, fi, file_path, file_size, obs>>

\* ------------------------------------------------------- the filesystem
FileId(p) == <<p, i[p], fi[p]>>

\* create_download_dir(user_id)
create_download_dir(u) == [dirs EXCEPT ![u] = TRUE]

\* cleanup_file(path) on the files d: os.remove when the path exists
cleanup_file(d, u, f) == [d EXCEPT ![u] = @ \ {f}]

\* cleanup_user_dir(user_id): shutil.rmtree of the user's directory, seen on the
\* directories dd and on the files d
cleanup_user_dir_dirs(dd, u) == [dd EXCEPT ![u] = FALSE]
cleanup_user_dir_files(d, u) == [d EXCEPT ![u] = {}]

\* -------------------------------------------------------- submissions
InDrain(p) == pc[p] \in {"loop", "dl", "size", "up", "flist", "fdl", "fsize", "fup"}

\* A message or a .txt document arrives and its handler runs up to the await of
\* user_db.can_use_bot, which reads the premium record and today's count.
Submit(p, u, h) ==
    /\ pc[p] = "idle"
    /\ usage[u] < MaxUsage
    /\ LET r == CanUseBot(IsPremium(u), usage[u]) IN
        /\ can_use' = [can_use EXCEPT ![p] = r[1]]
        /\ remaining' = [remaining EXCEPT ![p] = r[2]]
    /\ premium' = PremiumAfterCheck(u)
    /\ user' = [user EXCEPT ![p] = u]
    /\ obs' = ObsAfterCheck([obs EXCEPT ![p] = ZeroObs], p)
    /\ handler' = [handler EXCEPT ![p] = h]
    /\ pc' = [pc EXCEPT ![p] = "premcheck"]
    /\ UNCHANGED components
    /\ UNCHANGED <<now, usage, dirs, disk, is_premium, supported_links,
                   i, results, folder_results, nfiles, fi, file_path, file_size>>

\* The tokens of a message or batch file that are URLs of a supported source.
OfferedLinks(text) ==
    Cardinality({k \in DOMAIN text :
        text[k].scheme /\ (text[k].host \in {"gdrive", "terabox"} \/ text[k].ext)})

\* if not is_premium: if len(supported_links) > remaining: return
TxtOverLimit(prem, n, rem) == ~prem /\ n > rem

\* A total that counts every URL of the file, supported or not.
TxtTotal_every_url(links, supported) == Len(links)

\* results['total'] of process_txt_file
TxtTotal(links, supported) == Len(supported)

\* process_user_links from the is_premium call to the first status message: the
\* early returns ("No valid links", "No Supported Links"), else the drain starts.
StartLinks(p, T) ==
    /\ pc[p] = "premcheck"
    /\ handler[p] = "links"
    /\ premium' = PremiumAfterCheck(user[p])
    /\ is_premium' = [is_premium EXCEPT ![p] = IsPremium(user[p])]
    /\ \E text \in T :
        LET links == extract_links_from_text(text)
            supported == FilterSupported(links)
        IN  IF ~can_use[p] \/ links = <<>> \/ supported = <<>>
            THEN /\ pc' = [pc EXCEPT ![p] = "done"]
                 /\ obs' = ObsAfterCheck(obs, p)
                 /\ UNCHANGED <<supported_links, i, results>>
            ELSE /\ supported_links' = [supported_links EXCEPT ![p] = supported]
                 /\ obs' = [ObsAfterCheck(obs, p) EXCEPT ![p].offered = OfferedLinks(text)]
                 /\ results' = [results EXCEPT ![p] = ZeroResults]
                 /\ i' = [i EXCEPT ![p] = 1]
                 /\ pc' = [pc EXCEPT ![p] = "loop"]
    /\ UNCHANGED components
    /\ UNCHANGED <<now, usage, dirs, disk, handler, user, can_use, remaining,
                   folder_results, nfiles, fi, file_path, file_size>>

\* process_txt_file from the is_premium call to the "TXT File Processed" message:
\* the directory is created before the batch file is fetched; the returns taken
\* after that ("Failed to download file", "No Links Found", "No Supported Links
\* Found", "Limit Exceeded") do not remove it.
StartTxt(p, T) ==
    /\ pc[p] = "premcheck"
    /\ handler[p] = "txt"
    /\ premium' = PremiumAfterCheck(user[p])
    /\ is_premium' = [is_premium EXCEPT ![p] = IsPremium(user[p])]
    /\ IF ~can_use[p]
       THEN /\ pc' = [pc EXCEPT ![p] = "done"]
            /\ obs' = ObsAfterCheck(obs, p)
            /\ UNCHANGED <<dirs, supported_links, i, results>>
       ELSE /\ dirs' = create_download_dir(user[p])
            /\ \E text \in T, fetched \in BOOLEAN :
                LET links == extract_links_from_text(text)
                    supported == FilterSupported(links)
                IN  IF \/ ~fetched
                       \/ links = <<>>
                       \/ supported = <<>>
                       \/ TxtOverLimit(IsPremium(user[p]), Len(supported), remaining[p])
                    THEN /\ pc' = [pc EXCEPT ![p] = "done"]
                         /\ obs' = ObsAfterCheck(obs, p)
                         /\ UNCHANGED <<supported_links, i, results>>
                    ELSE /\ supported_links' = [supported_links EXCEPT ![p] = supported]
                         /\ obs' = [ObsAfterCheck(obs, p) EXCEPT
                                        ![p].offered = OfferedLinks(text)]
                         /\ results' = [results EXCEPT ![p] =
                                [ZeroResults EXCEPT !.total = TxtTotal(links, supported)]]
                         /\ i' = [i EXCEPT ![p] = 1]
                         /\ pc' = [pc EXCEPT ![p] = "loop"]
    /\ UNCHANGED components
    /\ UNCHANGED <<now, usage, disk, handler, user, can_use, remaining,
                   folder_results, nfiles, fi, file_path, file_size>>

\* ------------------------------------------------------------ the drain
\* A loop that gives up at the first failed item.
LoopContinues_until_failure(idx, n, failed) == idx < n /\ ~failed

\* for i, link in enumerate(supported_links, 1): the loop goes on to the next
\* link whatever became of this one.
LoopContinues(idx, n, failed) == idx < n

\* if not is_premium: await user_db.increment_usage(user_id)
Charges(success, prem) == success /\ ~prem

\* Config has no attribute MESSAGE_DELAY: evaluating the argument of
\* asyncio.sleep(Config.MESSAGE_DELAY) raises AttributeError.
HasMessageDelay == FALSE

\* process_user_links, after an item that did not raise: "if i <
\* len(supported_links): await asyncio.sleep(Config.MESSAGE_DELAY)"; the
\* AttributeError lands in the loop's except, which counts one more failed item.
AfterDelay(p, res) ==
    IF handler[p] = "txt" \/ i[p] >= Len(supported_links[p]) \/ HasMessageDelay
    THEN res
    ELSE [res EXCEPT !.total = @ + 1, !.failed = @ + 1]

\* process_terabox_folder, after an upload attempt: "await
\* asyncio.sleep(Config.MESSAGE_DELAY)"; the AttributeError lands in the file
\* loop's except, which counts one more failed file.
FolderAfterDelay(fres) ==
    IF HasMessageDelay THEN fres ELSE [fres EXCEPT !.failed = @ + 1]

\* results['total'] += folder_results['total'], and so on
Aggregate(res, fres) ==
    [total |-> res.total + fres.total,
     success |-> res.success + fres.success,
     failed |-> res.failed + fres.failed]

\* The end of one turn of the handler's loop: the next link, or, after the last
\* one, cleanup_user_dir and the summary.  ok: the item was not a failure; res,
\* dd, d: the results, directories and files the item leaves.
Finish(p, ok, res, dd, d) ==
    /\ file_path' = [file_path EXCEPT ![p] = NoFile]
    /\ file_size' = [file_size EXCEPT ![p] = 0]
    /\ results' = [results EXCEPT ![p] = res]
    /\ IF LoopContinues(i[p], Len(supported_links[p]), ~ok)
       THEN /\ i' = [i EXCEPT ![p] = @ + 1]
            /\ pc' = [pc EXCEPT ![p] = "loop"]
            /\ dirs' = dd
            /\ disk' = d
       ELSE /\ i' = i
            /\ pc' = [pc EXCEPT ![p] = "done"]
            /\ dirs' = cleanup_user_dir_dirs(dd, user[p])
            /\ disk' = cleanup_user_dir_files(d, user[p])

\* An item of the handler's loop fails without having delivered anything.
ItemFails(p, d) ==
    /\ obs' = [obs EXCEPT ![p].failed = @ + 1]
    /\ Finish(p, FALSE, AfterDelay(p, [results[p] EXCEPT !.failed = @ + 1]), dirs, d)

\* The top of the loop body: the status edit, then the folder test (links
\* handler only), else download_and_upload[_link] up to its retrieval await.
ItemStart(p) ==
    /\ pc[p] = "loop"
    /\ LET link == supported_links[p][i[p]] IN
       \E raises \in BOOLEAN :
        IF raises
        THEN \* status_msg.edit_text raised: except Exception of the loop
             /\ obs' = [obs EXCEPT ![p].attempted = @ + 1, ![p].failed = @ + 1]
             /\ Finish(p, FALSE,
                       IF handler[p] = "links"
                       THEN [results[p] EXCEPT !.total = @ + 1, !.failed = @ + 1]
                       ELSE [results[p] EXCEPT !.failed = @ + 1],
                       dirs, disk)
             /\ UNCHANGED <<folder_results>>
        ELSE /\ obs' = [obs EXCEPT ![p].attempted = @ + 1]
             /\ IF handler[p] = "links" /\ is_terabox_link(link) /\ HandlerIsFolder(link)
                THEN /\ pc' = [pc EXCEPT ![p] = "flist"]
                     /\ folder_results' = [folder_results EXCEPT ![p] = ZeroResults]
                     /\ UNCHANGED <<results, dirs>>
                ELSE /\ pc' = [pc EXCEPT ![p] = "dl"]
                     /\ results' = [results EXCEPT ![p].total =
                                        IF handler[p] = "links" THEN @ + 1 ELSE @]
                     /\ dirs' = create_download_dir(user[p])
                     /\ UNCHANGED <<folder_results>>
             /\ UNCHANGED <<i, disk, file_path, file_size>>
    /\ UNCHANGED components
    /\ UNCHANGED <<now, premium, usage, handler, user, can_use, remaining,
                   is_premium, supported_links, nfiles, fi>>

\* The retriever returns.  A terabox link that the retriever takes for a folder
\* comes back as the marker "TERABOX_FOLDER:<url>", never as a file: the links
\* handler returns False on it, the batch handler's os.path.getsize raises on it.
Download(p) ==
    /\ pc[p] = "dl"
    /\ LET link == supported_links[p][i[p]]
           marker == is_terabox_link(link) /\ RetrieverIsFolder(link)
       IN \E got \in BOOLEAN, sz \in Sizes :
            IF got /\ ~marker
            THEN /\ disk' = [disk EXCEPT ![user[p]] = @ \cup {FileId(p)}]
                 /\ file_path' = [file_path EXCEPT ![p] = FileId(p)]
                 /\ file_size' = [file_size EXCEPT ![p] = sz]
                 /\ pc' = [pc EXCEPT ![p] = "size"]
                 /\ UNCHANGED <<results, i, dirs, obs>>
            ELSE ItemFails(p, disk)
    /\ UNCHANGED components
    /\ UNCHANGED <<now, premium, usage, handler, user, can_use, remaining,
                   is_premium, supported_links, folder_results, nfiles, fi>>

\* max_size = await user_db.get_max_size(user_id); if file_size > max_size:
\* cleanup_file, return False
SizeCheck(p) ==
    /\ pc[p] = "size"
    /\ premium' = PremiumAfterCheck(user[p])
    /\ IF file_size[p] > GetMaxSize(IsPremium(user[p]))
       THEN /\ obs' = [ObsAfterCheck(obs, p) EXCEPT ![p].failed = @ + 1,
                                                     ![p].rejected = @ + 1]
            /\ Finish(p, FALSE, AfterDelay(p, [results[p] EXCEPT !.failed = @ + 1]),
                      dirs, cleanup_file(disk, user[p], file_path[p]))
       ELSE /\ obs' = ObsAfterCheck(obs, p)
            /\ pc' = [pc EXCEPT ![p] = "up"]
            /\ UNCHANGED <<results, i, dirs, disk, file_path, file_size>>
    /\ UNCHANGED components
    /\ UNCHANGED <<now, usage, handler, user, can_use, remaining,
                   is_premium, supported_links, folder_results, nfiles, fi>>

\* upload_file returns (sent or not), cleanup_file, then the closing edit_text,
\* which is inside download_and_upload[_link]'s try: when it raises, the
\* function returns False for an item that was delivered.
Upload(p) ==
    /\ pc[p] = "up"
    /\ \E sent \in BOOLEAN, raises \in BOOLEAN :
        LET success == sent /\ ~raises
            charge == Charges(success, is_premium[p])
            res == IF success THEN [results[p] EXCEPT !.success = @ + 1]
                              ELSE [results[p] EXCEPT !.failed = @ + 1]
        IN  /\ usage' = IF charge THEN increment_usage(user[p]) ELSE usage
            /\ obs' = [obs EXCEPT ![p].delivered = @ + (IF sent THEN 1 ELSE 0),
                                  ![p].failed = @ + (IF sent THEN 0 ELSE 1),
                                  ![p].charged = @ + (IF charge THEN 1 ELSE 0)]
            /\ Finish(p, success, AfterDelay(p, res), dirs,
                      cleanup_file(disk, user[p], file_path[p]))
    /\ UNCHANGED components
    /\ UNCHANGED <<now, premium, handler, user, can_use, remaining,
                   is_premium, supported_links, folder_results, nfiles, fi>>

\* ------------------------------------------------- the folder processor
\* process_terabox_folder returns: the handler adds the folder's results to its
\* own and goes on with its loop.
FolderReturn(p, fres, dd, d) ==
    /\ folder_results' = [folder_results EXCEPT ![p] = ZeroResults]
    /\ nfiles' = [nfiles EXCEPT ![p] = 0]
    /\ fi' = [fi EXCEPT ![p] = 0]
    /\ Finish(p, fres.failed = 0, AfterDelay(p, Aggregate(results[p], fres)), dd, d)

\* The end of one turn of the folder's file loop: the next file, or, after the
\* last one, cleanup_user_dir and the return.
FolderNext(p, fres, d) ==
    IF fi[p] < nfiles[p]
    THEN /\ fi' = [fi EXCEPT ![p] = @ + 1]
         /\ pc' = [pc EXCEPT ![p] = "fdl"]
         /\ folder_results' = [folder_results EXCEPT ![p] = fres]
         /\ disk' = d
         /\ file_path' = [file_path EXCEPT ![p] = NoFile]
         /\ file_size' = [file_size EXCEPT ![p] = 0]
         /\ UNCHANGED <<nfiles, results, i, dirs>>
    ELSE FolderReturn(p, fres, cleanup_user_dir_dirs(dirs, user[p]),
                      cleanup_user_dir_files(d, user[p]))

\* "Fetching file list..." edit, get_terabox_folder_files, the edit that follows.
\* An edit_text that raises here lands in the function's outer except.
FolderList(p) ==
    /\ pc[p] = "flist"
    /\ \E n \in 0..MaxFolderFiles, raises \in BOOLEAN :
        IF raises
        THEN /\ \/ FolderReturn(p, [ZeroResults EXCEPT !.failed = 1], dirs, disk)
                \/ /\ n > 0
                   /\ FolderReturn(p, [ZeroResults EXCEPT !.total = n, !.failed = 1],
                                   dirs, disk)
             /\ obs' = [obs EXCEPT ![p].failed = @ + 1]
        ELSE IF n = 0
        THEN /\ FolderReturn(p, [ZeroResults EXCEPT !.total = 1, !.failed = 1],
                             dirs, disk)
             /\ obs' = [obs EXCEPT ![p].failed = @ + 1]
        ELSE /\ folder_results' = [folder_results EXCEPT ![p] =
                                       [ZeroResults EXCEPT !.total = n]]
             /\ nfiles' = [nfiles EXCEPT ![p] = n]
             /\ fi' = [fi EXCEPT ![p] = 1]
             /\ dirs' = create_download_dir(user[p])
             /\ pc' = [pc EXCEPT ![p] = "fdl"]
             /\ UNCHANGED <<results, i, disk, file_path, file_size, obs>>
    /\ UNCHANGED components
    /\ UNCHANGED <<now, premium, usage, handler, user, can_use, remaining,
                   is_premium, supported_links>>

\* The "Downloading..." edit and download_terabox_single_file.  An edit_text that
\* raises lands in the file loop's except.
FolderDownload(p) ==
    /\ pc[p] = "fdl"
    /\ \E got \in BOOLEAN, sz \in Sizes :
        IF got
        THEN /\ disk' = [disk EXCEPT ![user[p]] = @ \cup {FileId(p)}]
             /\ file_path' = [file_path EXCEPT ![p] = FileId(p)]
             /\ file_size' = [file_size EXCEPT ![p] = sz]
             /\ pc' = [pc EXCEPT ![p] = "fsize"]
             /\ UNCHANGED <<results, i, dirs, folder_results, nfiles, fi, obs>>
        ELSE /\ obs' = [obs EXCEPT ![p].failed = @ + 1]
             /\ FolderNext(p, [folder_results[p] EXCEPT !.failed = @ + 1], disk)
    /\ UNCHANGED components
    /\ UNCHANGED <<now, premium, usage, handler, user, can_use, remaining,
                   is_premium, supported_links>>

\* max_size = await user_db.get_max_size(user_id); if actual_size > max_size:
\* cleanup_file, failed += 1, continue
FolderSize(p) ==
    /\ pc[p] = "fsize"
    /\ premium' = PremiumAfterCheck(user[p])
    /\ IF file_size[p] > GetMaxSize(IsPremium(user[p]))
       THEN /\ obs' = [ObsAfterCheck(obs, p) EXCEPT ![p].failed = @ + 1,
                                                     ![p].rejected = @ + 1]
            /\ FolderNext(p, [folder_results[p] EXCEPT !.failed = @ + 1],
                          cleanup_file(disk, user[p], file_path[p]))
       ELSE /\ obs' = ObsAfterCheck(obs, p)
            /\ pc' = [pc EXCEPT ![p] = "fup"]
            /\ UNCHANGED <<results, i, dirs, disk, file_path, file_size,
                           folder_results, nfiles, fi>>
    /\ UNCHANGED components
    /\ UNCHANGED <<now, usage, handler, user, can_use, remaining,
                   is_premium, supported_links>>

\* The "Uploading..." edit, upload_file, cleanup_file, the counts, the delay.
\* When the edit raises, the file loop's except counts a failure and goes on: it
\* does not call cleanup_file.
FolderUpload(p) ==
    /\ pc[p] = "fup"
    /\ \E sent \in BOOLEAN, raises \in BOOLEAN :
        IF raises
        THEN /\ obs' = [obs EXCEPT ![p].failed = @ + 1]
             /\ usage' = usage
             /\ FolderNext(p, [folder_results[p] EXCEPT !.failed = @ + 1], disk)
        ELSE LET charge == Charges(sent, is_premium[p])
                 fres == IF sent THEN [folder_results[p] EXCEPT !.success = @ + 1]
                                 ELSE [folder_results[p] EXCEPT !.failed = @ + 1]
             IN  /\ usage' = IF charge THEN increment_usage(user[p]) ELSE usage
                 /\ obs' = [obs EXCEPT ![p].delivered = @ + (IF sent THEN 1 ELSE 0),
                                       ![p].failed = @ + (IF sent THEN 0 ELSE 1),
                                       ![p].charged = @ + (IF charge THEN 1 ELSE 0)]
                 /\ FolderNext(p, FolderAfterDelay(fres),
                               cleanup_file(disk, user[p], file_path[p]))
    /\ UNCHANGED components
    /\ UNCHANGED <<now, premium, handler, user, can_use, remaining,
                   is_premium, supported_links>>

\* ------------------------------------------------------ other messages
\* The user sends /cancel while a drain runs.  No handler is registered for the
\* command and no handler reads a cancellation flag: only the history records it.
Cancel(p) ==
    /\ InDrain(p)
    /\ obs[p].cancelled = 0
    /\ obs' = [obs EXCEPT ![p].cancelled = i[p]]
    /\ UNCHANGED components
    /\ UNCHANGED <<now, premium, usage, dirs, disk, pc, handler, user, can_use,
                   remaining, is_premium, supported_links, i, results,
                   folder_results, nfiles, fi, file_path, file_size>>

\* The handler coroutine has returned; its locals are gone.
Return(p) ==
    /\ pc[p] = "done"
    /\ pc' = [pc EXCEPT ![p] = "idle"]
    /\ handler' = [handler EXCEPT ![p] = "links"]
    /\ user' = [user EXCEPT ![p] = "u"]
    /\ can_use' = [can_use EXCEPT ![p] = FALSE]
    /\ remaining' = [remaining EXCEPT ![p] = 0]
    /\ is_premium' = [is_premium EXCEPT ![p] = FALSE]
    /\ supported_links' = [supported_links EXCEPT ![p] = <<>>]
    /\ i' = [i EXCEPT ![p] = 0]
    /\ results' = [results EXCEPT ![p] = ZeroResults]
    /\ obs' = [obs EXCEPT ![p] = ZeroObs]
    /\ UNCHANGED components
    /\ UNCHANGED <<now, premium, usage, dirs, disk, folder_results, nfiles, fi,
                   file_path, file_size>>

\* ------------------------------------------------- the settings dialogue
\* The fields of a settings record and the state that awaits each.
Fields == {"chat_id", "title", "thumbnail"}
Waiting(f) == "waiting_" \o f

\* /setting: premium users get the menu.
SettingCommand(u) ==
    /\ premium' = PremiumAfterCheck(u)
    /\ screen' = IF IsPremium(u) THEN [screen EXCEPT ![u] = "menu"] ELSE screen
    /\ UNCHANGED <<setting_states, settings>>
    /\ UNCHANGED <<handlerv, besideSettings>>

\* set_chat_id_callback, set_title_callback, set_thumbnail_callback: a button of
\* the menu; premium users are put in the state that awaits the input.
SetCallback(u, f) ==
    /\ screen[u] = "menu"
    /\ premium' = PremiumAfterCheck(u)
    /\ IF IsPremium(u)
       THEN /\ setting_states' = [setting_states EXCEPT ![u] = Waiting(f)]
            /\ screen' = [screen EXCEPT ![u] = "prompt"]
       ELSE UNCHANGED <<setting_states, screen>>
    /\ UNCHANGED settings
    /\ UNCHANGED <<handlerv, besideSettings>>

\* reset_settings_callback: premium users get the confirmation keyboard.
ResetSettingsCallback(u) ==
    /\ screen[u] = "menu"
    /\ premium' = PremiumAfterCheck(u)
    /\ screen' = IF IsPremium(u) THEN [screen EXCEPT ![u] = "confirm"] ELSE screen
    /\ UNCHANGED <<setting_states, settings>>
    /\ UNCHANGED <<handlerv, besideSettings>>

\* confirm_reset_callback: reset_settings, with no look at premium.
ConfirmReset(u) ==
    /\ screen[u] = "confirm"
    /\ settings' = [settings EXCEPT ![u] = {}]
    /\ screen' = [screen EXCEPT ![u] = "closed"]
    /\ UNCHANGED <<premium, setting_states>>
    /\ UNCHANGED <<handlerv, besideSettings>>

\* cancel_setting_callback
CancelSetting(u) ==
    /\ screen[u] \in {"prompt", "confirm"}
    /\ setting_states' = [setting_states EXCEPT ![u] = "none"]
    /\ screen' = [screen EXCEPT ![u] = "closed"]
    /\ UNCHANGED <<premium, settings>>
    /\ UNCHANGED <<handlerv, besideSettings>>

\* open_settings_callback
OpenSettings(u) ==
    /\ screen[u] = "closed"
    /\ screen' = [screen EXCEPT ![u] = "menu"]
    /\ UNCHANGED <<premium, setting_states, settings>>
    /\ UNCHANGED <<handlerv, besideSettings>>

\* handle_setting_input: a private message of a user whose state awaits an
\* input; a usable input (a number, a text, a photo) is stored, with no look at
\* premium, and the reply carries the "Open Settings" button.
SettingInput(u) ==
    /\ setting_states[u] # "none"
    /\ \E usable \in BOOLEAN, f \in Fields :
        /\ setting_states[u] = Waiting(f)
        /\ IF usable \/ f = "title"
           THEN /\ settings' = [settings EXCEPT ![u] = @ \cup {f}]
                /\ setting_states' = [setting_states EXCEPT ![u] = "none"]
                /\ screen' = [screen EXCEPT ![u] = "closed"]
           ELSE UNCHANGED <<settings, setting_states, screen>>
    /\ UNCHANGED premium
    /\ UNCHANGED <<handlerv, besideSettings>>

\* ------------------------------------------------- the link classifier
\* process_user_links on a message of one token: extract, filter, dispatch.
ClassifyLink(l) ==
    /\ cl_url' = l
    /\ LET supported == FilterSupported(extract_links_from_text(<<l>>)) IN
        /\ cl_task' = (supported # <<>>)
        /\ cl_kind' = IF supported # <<>> THEN Classify(supported[1])
                      ELSE "unsupported"
    /\ UNCHANGED <<premium, handlerv, besideClassifier>>

\* ------------------------------------------------------- the retriever
\* helpers.sanitize_filename: the invalid characters become '_'.
sanitize_filename(filename) ==
    [filename EXCEPT !.stem = IF @ = "a:" THEN "a_" ELSE @]

\* Downloader.get_extension_from_content_type: the map's entry, or ''.
get_extension_from_content_type(ct) == IF ct = "video/mp4" THEN ".mp4" ELSE ""

\* "ext and 2 <= len(ext) <= 5"
ValidExt(e) == e # "" /\ 2 <= ExtLen(e) /\ ExtLen(e) <= 5

\* 'video' in content_type.lower()
ContainsVideo(ct) == ct \in {"video/mp4", "video/x-flv"}

\* Downloader.ensure_extension
ensure_extension(filename, content_type, url_ext) ==
    IF ValidExt(filename.ext) THEN filename
    ELSE IF get_extension_from_content_type(content_type) # ""
    THEN [filename EXCEPT !.ext = get_extension_from_content_type(content_type)]
    ELSE IF ValidExt(url_ext) THEN [filename EXCEPT !.ext = url_ext]
    ELSE IF ContainsVideo(content_type) THEN [filename EXCEPT !.ext = ".mp4"]
    ELSE filename

\* os.path.exists
Exists(dir, path) == path \in DOMAIN dir /\ dir[path] # "absent"

\* A writer that takes the name as it comes, whatever the directory holds.
UniquePath_overwrite(dir, name, n) == n

\* The "Unique filename" loop: the first counter from n whose path is free.
RECURSIVE UniquePath(_, _, _)
UniquePath(dir, name, n) ==
    IF Exists(dir, FilePath(name, n)) THEN UniquePath(dir, name, n + 1) ELSE n

\* os.path.getsize(file_path) > 0
NonEmpty(content) == content # "empty"

\* The name download_file_sync gives the file: the Content-Disposition name,
\* sanitized, if the header has one, else the caller's; then ensure_extension.
SavedName(filename, r) ==
    ensure_extension(IF r.cd # NoName THEN sanitize_filename(r.cd) ELSE filename,
                     r.content_type, r.url_ext)

\* Downloader.download_file_sync on response r: the directory it leaves and the
\* result it returns.
download_file_sync(dir, filename, r) ==
    IF r.raised = "Timeout"
    THEN [dir |-> dir, result |-> Failure("Download timeout")]
    ELSE IF r.raised # "no"
    THEN [dir |-> dir, result |-> Failure("str(e)")]
    ELSE IF r.status \notin {200, 206}
    THEN [dir |-> dir, result |-> Failure("HTTP Error")]
    ELSE LET name == SavedName(filename, r)
             path == FilePath(name, UniquePath(dir, name, 0))
         IN  IF r.body = "broken"
             THEN [dir |-> [dir EXCEPT ![path] = "partial"],
                   result |-> Failure("str(e)")]
             ELSE [dir |-> [dir EXCEPT ![path] = r.body],
                   result |-> IF NonEmpty(r.body) THEN Success(path)
                              ELSE Failure("Empty file")]

\* The calls the bounds admit: the directory holds fewer than room files and the
\* counter of the name stays within MaxSuffix.
Admitted(filename, r, room) ==
    /\ Cardinality({p \in Paths : Exists(dl_dir, p)}) < room
    /\ \E n \in 0..MaxSuffix : ~Exists(dl_dir, FilePath(SavedName(filename, r), n))

\* What every entry point does last: return, here with the history of the call.
Returns(entry, r, out, steps) ==
    /\ tb_steps' = steps
    /\ dl_dir' = out.dir
    /\ dl_result' = out.result
    /\ dl_call' = [entry |-> entry, response |-> r,
                   before |-> {p \in Paths : Exists(dl_dir, p)}]
    /\ UNCHANGED <<premium, handlerv, besideRetriever>>

\* The names the entry points pass: "gdrive_file", "google_file", the API's
\* server_filename, the last segment of the URL's path.
CallerNames == {Name("a", ""), Name("a", ".mp4")}

\* Downloader.download_direct
download_direct(r, room) ==
    \E filename \in CallerNames :
        /\ Admitted(sanitize_filename(filename), r, room)
        /\ Returns("download_direct", r,
                   download_file_sync(dl_dir, sanitize_filename(filename), r),
                   tb_steps)

\* Downloader.download_gdrive: a URL with no file id is refused.
download_gdrive(r, room) ==
    \E has_id \in BOOLEAN :
        /\ Admitted(Name("a", ""), r, room)
        /\ Returns("download_gdrive", r,
                   IF has_id THEN download_file_sync(dl_dir, Name("a", ""), r)
                   ELSE [dir |-> dl_dir,
                         result |-> Failure("Invalid Google Drive URL")],
                   tb_steps)

\* Downloader.TERABOX_API_BASES
TERABOX_API_BASES == <<"www.terabox.com", "www.1024tera.com", "teraboxapp.com",
                       "www.nephobox.com">>

\* A list of endpoints that puts the short code without the leading 1 first.
api_urls_bare_first ==
    [k \in 1..(2 * Len(TERABOX_API_BASES)) |->
        [base |-> TERABOX_API_BASES[(k + 1) \div 2], one |-> (k % 2 = 0)]]

\* get_terabox_share_info: api_urls, for each base the endpoint with the short
\* code behind a leading 1, then the one with the bare short code.
api_urls ==
    [k \in 1..(2 * Len(TERABOX_API_BASES)) |->
        [base |-> TERABOX_API_BASES[(k + 1) \div 2], one |-> (k % 2 = 1)]]

\* What the servers answer to one link: which endpoint is the first to answer
\* with errno 0 (0: none does), the dlink of the first file it lists, the link
\* the scraped page yields and the dlink of the first file the page lists
\* ("none": it lists no file).  A link is "http..." (it starts with http), ""
\* (empty or missing) or "other".  What the code never reads is left empty.
Answers ==
    {a \in [first_ok: 0..Len(api_urls), dlink: {"http...", "other", ""},
            scraped: {"http...", "other", ""},
            listed: {"http...", "other", "", "none"}] :
        /\ a.first_ok = 0 => a.dlink = ""
        /\ a.dlink # "" => a.scraped = "" /\ a.listed = "none"}

\* The answers of a server whose first endpoint gives the link, and of servers
\* that give nothing.
PlainAnswers ==
    {a \in Answers : \/ a.first_ok = 1 /\ a.dlink = "http..."
                     \/ a.first_ok = 0 /\ a.scraped = "" /\ a.listed = "none"}

\* One step of the retrieval of a link, with the link it yielded.
Step(kind, target, errno0, got) ==
    [kind |-> kind, target |-> target, errno0 |-> errno0, got |-> got]

\* get_terabox_share_info: the endpoints are asked in the order of api_urls, up
\* to the first that answers with errno 0.
Probes(a) ==
    [k \in 1..(IF a.first_ok = 0 THEN Len(api_urls) ELSE a.first_ok) |->
        Step("api", api_urls[k], k = a.first_ok,
             IF k = a.first_ok THEN a.dlink ELSE "")]

\* scrape_terabox_page, and "if files and not download_url"
Scraped(a) ==
    IF a.scraped # "" \/ a.listed = "none" THEN a.scraped ELSE a.listed

\* download_url.startswith('http')
Usable(link) == link = "http..."

\* download_terabox, from the API probe to the stream download: the steps made.
Strategies(a) ==
    LET scrape == a.dlink = ""
        download_url == IF scrape THEN Scraped(a) ELSE a.dlink
    IN  Probes(a)
        \o (IF scrape THEN <<Step("scrape", "page", FALSE, Scraped(a))>> ELSE <<>>)
        \o <<Step("stream", IF Usable(download_url) THEN "dlink" ELSE "normalized",
                  FALSE, "")>>

\* Downloader.download_terabox: a folder URL is answered with the marker, a URL
\* with no share code is refused.
download_terabox(r, room, answers) ==
    \E l \in {TB_FILE, TB_LIST}, surl \in BOOLEAN, filename \in CallerNames,
       a \in answers :
        /\ Admitted(sanitize_filename(filename), r, room)
        /\ IF RetrieverIsFolder(l)
           THEN Returns("download_terabox", r,
                        [dir |-> dl_dir, result |-> Success(FolderMarker)], <<>>)
           ELSE IF ~surl
           THEN Returns("download_terabox", r,
                        [dir |-> dl_dir,
                         result |-> Failure("Could not extract share code from URL")],
                        <<>>)
           ELSE Returns("download_terabox", r,
                        download_file_sync(dl_dir, sanitize_filename(filename), r),
                        Strategies(a))

\* Downloader.download_terabox_single_file: an entry with no dlink is refused.
download_terabox_single_file(r, room) ==
    \E dlink \in BOOLEAN, filename \in CallerNames :
        /\ Admitted(sanitize_filename(filename), r, room)
        /\ Returns("download_terabox_single_file", r,
                   IF dlink
                   THEN download_file_sync(dl_dir, sanitize_filename(filename), r)
                   ELSE [dir |-> dl_dir, result |-> Failure("No download link")],
                   tb_steps)

\* helpers.cleanup_user_dir on the directory: it is removed and made anew.
EmptyDownloadDir ==
    /\ \E p \in Paths : Exists(dl_dir, p)
    /\ dl_dir' = [p \in Paths |-> "absent"]
    /\ UNCHANGED <<dl_result, dl_call, tb_steps>>
    /\ UNCHANGED <<premium, handlerv, besideRetriever>>

\* ------------------------------------------------ the progress reporter
\* A comparison that wants more than the interval to have passed.
Due_strict(current_time, last, interval) == current_time - last > interval

\* "current_time - self.last_update_time >= self.update_interval"
Due(current_time, last, interval) == current_time - last >= interval

\* Progress.should_update, as its callers see it
CallShouldUpdate ==
    LET current_time == clock
        due == Due(current_time, last_update_time, update_interval)
    IN  /\ last_update_time' = IF due THEN current_time ELSE last_update_time
        /\ should_update' = due
        /\ pr_obs' = [called |-> TRUE,
                      flip |-> ~pr_obs.flip,
                      true_at |-> IF due THEN current_time ELSE pr_obs.true_at,
                      prev_true_at |-> IF due THEN pr_obs.true_at
                                       ELSE pr_obs.prev_true_at,
                      suppressed |-> pr_obs.suppressed \/ ~due]
        /\ UNCHANGED clock

\* Progress.should_update
ShouldUpdate ==
    /\ CallShouldUpdate
    /\ UNCHANGED <<eta, eta_text, eta_args>>
    /\ UNCHANGED <<premium, handlerv, besideProgress>>

\* int(x / y) of Python for y > 0: the quotient, rounded towards zero
IntQuotient(x, y) == IF x >= 0 THEN x \div y ELSE -((-x) \div y)

\* "speed = current / elapsed if elapsed > 0 else 0": whether it is above 0
SpeedPositive(current, elapsed) == elapsed > 0 /\ current > 0

\* "eta = int((total - current) / speed) if speed > 0 else 0", the speed being
\* current / elapsed
Eta(current, total, elapsed) ==
    IF SpeedPositive(current, elapsed)
    THEN IntQuotient((total - current) * elapsed, current)
    ELSE 0

\* A format_time that prints whatever number it is given.
format_time_signed(seconds) ==
    IF seconds < 60 THEN <<seconds, "s">>
    ELSE IF seconds < 3600 THEN <<seconds \div 60, "m", seconds % 60, "s">>
    ELSE <<seconds \div 3600, "h", (seconds % 3600) \div 60, "m">>

\* Progress.format_time: "0s", "<s>s", "<m>m, <s>s" or "<h>h, <m>m"
format_time(seconds) ==
    IF seconds < 0 THEN <<0, "s">>
    ELSE IF seconds < 60 THEN <<seconds, "s">>
    ELSE IF seconds < 3600 THEN <<seconds \div 60, "m", seconds % 60, "s">>
    ELSE <<seconds \div 3600, "h", (seconds % 3600) \div 60, "m">>

\* progress_callback (utils/progress.py, and the closure of upload_file): when
\* should_update allows it, the eta is computed and the text made from it.
progress_callback ==
    \E current \in 0..MaxBytes, total \in 0..MaxBytes \cup {BigTotal},
       elapsed \in 0..MaxElapsed :
        /\ CallShouldUpdate
        /\ IF should_update'
           THEN /\ eta' = Eta(current, total, elapsed)
                /\ eta_text' = format_time(Eta(current, total, elapsed))
                /\ eta_args' = [shown |-> TRUE, current |-> current,
                                total |-> total, elapsed |-> elapsed]
           ELSE UNCHANGED <<eta, eta_text, eta_args>>
        /\ UNCHANGED <<premium, handlerv, besideProgress>>

\* A second passes.
Second ==
    /\ clock < StartTime + MaxSeconds
    /\ clock' = clock + 1
    /\ UNCHANGED <<last_update_time, should_update, pr_obs, eta, eta_text, eta_args>>
    /\ UNCHANGED <<premium, handlerv, besideProgress>>

\* --------------------------------------------------------- the uploader
\* The shape upload_file tries first for a kind of file.
SpecificShape(file_type, size) ==
    CASE file_type = "video" -> "send_video"
      [] file_type = "audio" -> "send_audio"
      [] file_type = "image" /\ size < PhotoLimitMB -> "send_photo"
      [] OTHER -> "send_document"

\* An except clause that gives up.
Fallback_none(ok) == <<>>

\* The except clause of a specific send: one send_document.
Fallback(ok) == <<Send("send_document", ok)>>

\* The sends upload_file makes, given how the first and the fallback end.
Sends(file_type, size, ok1, ok2) ==
    LET shape == SpecificShape(file_type, size) IN
    IF shape = "send_document" \/ ok1 THEN <<Send(shape, ok1)>>
    ELSE <<Send(shape, FALSE)>> \o Fallback(ok2)

\* Uploader.upload_file. The thumbnail is the custom one if the caller gave one
\* and it exists, else the one generate_thumbnail makes (it may make none); a
\* send that raises and is not caught by a fallback ends the call in the outer
\* except clause, past the thumbnail cleanup.
upload_file ==
    \E exists \in BOOLEAN, file_type \in FileTypes, size \in UploadSizes,
       custom_thumbnail \in BOOLEAN, made \in BOOLEAN, ok1 \in BOOLEAN,
       ok2 \in BOOLEAN :
        LET custom == custom_thumbnail /\ "custom" \in thumbs
            generated == exists /\ ~custom /\ made
            sends == IF exists THEN Sends(file_type, size, ok1, ok2) ELSE <<>>
            success == sends # <<>> /\ sends[Len(sends)].ok
        IN  /\ up_call' = [called |-> TRUE, file_type |-> file_type,
                           file_size |-> size, custom |-> custom,
                           generated |-> generated, sends |-> sends,
                           before |-> thumbs]
            /\ up_result' = [success |-> success,
                             error |-> IF success THEN "None"
                                       ELSE IF exists THEN "str(e)"
                                       ELSE "File not found"]
            /\ thumbs' = IF ~generated THEN thumbs
                         ELSE IF success THEN thumbs \ {"generated"}
                         ELSE thumbs \cup {"generated"}
            /\ UNCHANGED <<premium, handlerv, besideUploader>>

\* A thumbnail of the user's comes to exist at the path the caller passes.
PlaceCustomThumbnail ==
    /\ "custom" \notin thumbs
    /\ thumbs' = thumbs \cup {"custom"}
    /\ UNCHANGED <<up_result, up_call>>
    /\ UNCHANGED <<premium, handlerv, besideUploader>>

\* -------------------------------------------------------------- startup
\* Database.connect, UserDatabase.connect: True, or False when the store cannot
\* be reached (the exception is caught and logged); main() drops the value.
Connect(store, at, next) ==
    /\ main_pc = at
    /\ \E reached \in BOOLEAN :
        connected' = [connected EXCEPT ![store] = IF reached THEN "True" ELSE "False"]
    /\ main_pc' = next
    /\ UNCHANGED <<bot_running, handled>>
    /\ UNCHANGED <<premium, handlerv, besideStartup>>

ConnectDb == Connect("db", "connect_db", "connect_user_db")
ConnectUserDb == Connect("user_db", "connect_user_db", "flask")

\* main(): the Flask thread is started.
StartFlask ==
    /\ main_pc = "flask"
    /\ main_pc' = "start"
    /\ UNCHANGED <<connected, bot_running, handled>>
    /\ UNCHANGED <<premium, handlerv, besideStartup>>

\* main(): app.start()
StartBot ==
    /\ main_pc = "start"
    /\ bot_running' = TRUE
    /\ main_pc' = "startup_message"
    /\ UNCHANGED <<connected, handled>>
    /\ UNCHANGED <<premium, handlerv, besideStartup>>

\* main(): get_me and the startup message to the log channel, sent or not.
StartupMessage ==
    /\ main_pc = "startup_message"
    /\ main_pc' = "idle"
    /\ UNCHANGED <<connected, bot_running, handled>>
    /\ UNCHANGED <<premium, handlerv, besideStartup>>

\* A handler of the started client takes a message.
HandleMessage ==
    /\ bot_running
    /\ handled.total < MaxMessages
    /\ handled' = [total |-> handled.total + 1,
                   unconnected |-> IF \A s \in Stores : connected[s] = "True"
                                   THEN handled.unconnected
                                   ELSE handled.unconnected + 1]
    /\ UNCHANGED <<main_pc, connected, bot_running>>
    /\ UNCHANGED <<premium, handlerv, besideStartup>>

\* main(): idle() returns on a signal; the stores are closed, the client stopped.
Shutdown ==
    /\ main_pc = "idle"
    /\ main_pc' = "stopped"
    /\ bot_running' = FALSE
    /\ UNCHANGED <<connected, handled>>
    /\ UNCHANGED <<premium, handlerv, besideStartup>>

\* -------------------------------------------------------- specifications
\* One invocation of either handler by the free user, on every message or batch
\* file of up to MaxLinks tokens.
Next ==
    \/ \E h \in Handlers : Submit("p1", "u", h)
    \/ StartLinks("p1", Texts)
    \/ StartTxt("p1", Texts)
    \/ ItemStart("p1")
    \/ Download("p1")
    \/ SizeCheck("p1")
    \/ Upload("p1")
    \/ FolderList("p1")
    \/ FolderDownload("p1")
    \/ FolderSize("p1")
    \/ FolderUpload("p1")
    \/ Cancel("p1")

Spec == Init /\ [][Next]_vars

\* Invocations one after the other, by the free user or the owner, while premium
\* is granted, revoked and expires.
NextPremium ==
    \/ Tick
    \/ \E u \in Users : AddPremium(u)
    \/ \E u \in Users : RemovePremium(u)
    \/ \E u \in Users, h \in Handlers : Submit("p1", u, h)
    \/ StartLinks("p1", ShortTexts)
    \/ StartTxt("p1", ShortTexts)
    \/ ItemStart("p1")
    \/ Download("p1")
    \/ SizeCheck("p1")
    \/ Upload("p1")
    \/ FolderList("p1")
    \/ FolderDownload("p1")
    \/ FolderSize("p1")
    \/ FolderUpload("p1")
    \/ Return("p1")

SpecPremium == Init /\ [][NextPremium]_vars

\* Two invocations of the free user that overlap in time.
NextPair ==
    \E p \in Procs :
        \/ \E h \in Handlers : Submit(p, "u", h)
        \/ StartLinks(p, ShortTexts)
        \/ StartTxt(p, ShortTexts)
        \/ ItemStart(p)
        \/ Download(p)
        \/ SizeCheck(p)
        \/ Upload(p)
        \/ FolderList(p)
        \/ FolderDownload(p)
        \/ FolderSize(p)
        \/ FolderUpload(p)

SpecPair == Init /\ [][NextPair]_vars

\* The settings dialogue of each user while premium is granted, revoked and
\* expires.
NextSettings ==
    \/ Tick
    \/ \E u \in Users : AddPremium(u)
    \/ \E u \in Users : RemovePremium(u)
    \/ \E u \in Users : SettingCommand(u)
    \/ \E u \in Users, f \in Fields : SetCallback(u, f)
    \/ \E u \in Users : ResetSettingsCallback(u)
    \/ \E u \in Users : ConfirmReset(u)
    \/ \E u \in Users : CancelSetting(u)
    \/ \E u \in Users : OpenSettings(u)
    \/ \E u \in Users : SettingInput(u)

SpecSettings == Init /\ [][NextSettings]_vars

\* The classifier on every token.
NextClassify == \E l \in Urls : ClassifyLink(l)

SpecClassify == Init /\ [][NextClassify]_vars

\* Downloads of files the server names, one after the other into one directory
\* of up to MaxFiles files.
NextNaming ==
    \/ \E r \in NamedResponses : download_direct(r, MaxFiles)
    \/ EmptyDownloadDir

SpecNaming == Init /\ [][NextNaming]_vars

\* Calls of the retriever's entry points, each into an empty directory.
NextRetrieve ==
    \/ \E r \in PlainResponses : download_direct(r, 1)
    \/ \E r \in PlainResponses : download_gdrive(r, 1)
    \/ \E r \in PlainResponses : download_terabox(r, 1, PlainAnswers)
    \/ \E r \in PlainResponses : download_terabox_single_file(r, 1)
    \/ EmptyDownloadDir

SpecRetrieve == Init /\ [][NextRetrieve]_vars

\* Calls of download_terabox, whatever the file locker's servers answer.
NextTerabox ==
    \/ \E r \in {Response("no", 200, NoName, "video/mp4", "", "media"),
                  Response("no", 404, NoName, "text/html", "", "html")} :
            download_terabox(r, 1, Answers)
    \/ EmptyDownloadDir

SpecTerabox == Init /\ [][NextTerabox]_vars

\* Calls of should_update at any moment, any number of them in a second.
NextProgress == ShouldUpdate \/ Second

SpecProgress == Init /\ [][NextProgress]_vars

\* Database.add_user: an upsert that sets every field of user_data, is_banned
\* = False among them; an error of the database is logged and nothing is set.
add_user(docs, u, db_ok) ==
    IF db_ok THEN [docs EXCEPT ![u] = NotBanned] ELSE docs

\* Database.is_user_banned: False when there is no document or on an error
is_user_banned(docs, u, db_ok) == db_ok /\ docs[u] = Banned

\* Database.ban_user / unban_user: update_one without upsert
SetBanned(docs, u, value, db_ok) ==
    IF db_ok /\ docs[u] # Absent THEN [docs EXCEPT ![u] = value] ELSE docs

ban_user ==
    \E u \in Users, db_ok \in BOOLEAN :
        /\ users' = SetBanned(users, u, Banned, db_ok)
        /\ ban_standing' = [ban_standing EXCEPT ![u] = @ \/ users'[u] = Banned]
        /\ UNCHANGED arrival
        /\ UNCHANGED <<premium, handlerv, besideBan>>

unban_user ==
    \E u \in Users, db_ok \in BOOLEAN :
        /\ users' = SetBanned(users, u, NotBanned, db_ok)
        /\ ban_standing' = [ban_standing EXCEPT ![u] = FALSE]
        /\ UNCHANGED arrival
        /\ UNCHANGED <<premium, handlerv, besideBan>>

\* The head of start_command, process_user_links and process_txt_file:
\* add_user, then the ban check that ends the handler with "You are banned".
Enter ==
    \E h \in Entries, u \in Users, add_ok \in BOOLEAN, check_ok \in BOOLEAN :
        /\ users' = add_user(users, u, add_ok)
        /\ arrival' = [handler |-> h, user |-> u, standing |-> ban_standing[u],
                       db_ok |-> add_ok /\ check_ok,
                       rejected |-> is_user_banned(users', u, check_ok)]
        /\ UNCHANGED ban_standing
        /\ UNCHANGED <<premium, handlerv, besideBan>>

\* The handler returns by the path named.
Leave(path) ==
    /\ sub_pc' = "ended"
    /\ sub' = [sub EXCEPT !.exit = path]

\* "if is_group: try: await status_msg.pin(...) except: pass"
Pin(is_group, pin_ok) == is_group /\ pin_ok

\* process_txt_file up to the pin: the status message is sent and, in a group,
\* pinned.
TxtStatus ==
    \E is_group \in BOOLEAN, pin_ok \in BOOLEAN :
        /\ sub_pc = "idle"
        /\ left_pinned < MaxPins
        /\ sub' = [NoSubmission EXCEPT !.handler = "txt", !.is_group = is_group]
        /\ status_pinned' = Pin(is_group, pin_ok)
        /\ sub_pc' = TxtChecks[1]
        /\ UNCHANGED left_pinned
        /\ UNCHANGED <<premium, handlerv, besidePin>>

\* process_txt_file between the pin and the loop: the download of the file, "if
\* not links", "if not supported_links", the limit of a free user, each
\* returning the edit of the status message, and the "TXT File Processed" edit,
\* whose exception leaves the handler.
TxtCheck ==
    \E k \in 1..Len(TxtChecks), passes \in BOOLEAN :
        /\ sub_pc = TxtChecks[k]
        /\ IF ~passes THEN Leave(TxtChecks[k])
           ELSE /\ sub_pc' = IF k < Len(TxtChecks) THEN TxtChecks[k + 1] ELSE "loop"
                /\ UNCHANGED sub
        /\ UNCHANGED <<status_pinned, left_pinned>>
        /\ UNCHANGED <<premium, handlerv, besidePin>>

\* process_user_links up to the pin: "if not links" and "if not
\* supported_links" return before a status message exists; else the status
\* message is sent and, in a group, pinned.
LinksStatus ==
    \E is_group \in BOOLEAN, found \in {"links", "supported", "ok"},
       pin_ok \in BOOLEAN :
        /\ sub_pc = "idle"
        /\ left_pinned < MaxPins
        /\ status_pinned' = (found = "ok" /\ Pin(is_group, pin_ok))
        /\ sub_pc' = IF found = "ok" THEN "loop" ELSE "ended"
        /\ sub' = [NoSubmission EXCEPT !.handler = "links", !.is_group = is_group,
                       !.exit = IF found = "ok" THEN "none" ELSE found]
        /\ UNCHANGED left_pinned
        /\ UNCHANGED <<premium, handlerv, besidePin>>

\* The loop, cleanup_user_dir and the summary edit of either handler, then "if
\* is_group: try: await status_msg.unpin() except: ..."
SummaryAndUnpin ==
    \E unpin_ok \in BOOLEAN :
        /\ sub_pc = "loop"
        /\ status_pinned' = (status_pinned /\ ~(sub.is_group /\ unpin_ok))
        /\ sub_pc' = "ended"
        /\ sub' = [sub EXCEPT !.exit = "summary",
                              !.unpin_raised = sub.is_group /\ ~unpin_ok]
        /\ UNCHANGED left_pinned
        /\ UNCHANGED <<premium, handlerv, besidePin>>

\* The handler has returned; the next submission may arrive.
NextSubmission ==
    /\ sub_pc = "ended"
    /\ sub_pc' = "idle"
    /\ sub' = NoSubmission
    /\ status_pinned' = FALSE
    /\ left_pinned' = left_pinned + (IF status_pinned THEN 1 ELSE 0)
    /\ UNCHANGED <<premium, handlerv, besidePin>>

\* Submissions of links and of batch files, one after the other.
NextPin ==
    \/ TxtStatus
    \/ TxtCheck
    \/ LinksStatus
    \/ SummaryAndUnpin
    \/ NextSubmission

SpecPin == Init /\ [][NextPin]_vars

\* Bans, unbans and the entries of the handlers.
NextBan == ban_user \/ unban_user \/ Enter

SpecBan == Init /\ [][NextBan]_vars

\* Progress callbacks of a transfer, on any counts.
NextEta == progress_callback

SpecEta == Init /\ [][NextEta]_vars

\* Uploads one after the other, with or without a custom thumbnail on disk.
NextUpload == upload_file \/ PlaceCustomThumbnail

SpecUpload == Init /\ [][NextUpload]_vars

\* One run of main(), with the messages that arrive once the client is started.
NextStartup ==
    \/ ConnectDb
    \/ ConnectUserDb
    \/ StartFlask
    \/ StartBot
    \/ StartupMessage
    \/ HandleMessage
    \/ Shutdown

SpecStartup == Init /\ [][NextStartup]_vars
\* ------------------------------------------------------------ properties
Drained(p) == pc[p] = "done" /\ obs[p].attempted > 0
InFlight(p) == pc[p] \in {"size", "up", "fsize", "fup"}

\* C1: for every user at most one drain is active at any time: no two
\* invocations of the same user are in their drains together.
C1_OneDrainPerUser ==
    \A p, q \in Procs :
        (p # q /\ user[p] = user[q] /\ InDrain(p)) => ~InDrain(q)

\* C2: when a non-premium user with M remaining quota submits N > M supported
\* links and every retrieval and delivery succeeds (and is counted a success),
\* exactly M tasks have been charged when the drain ends.
C2_ChargesOnlyRemaining ==
    \A p \in Procs :
        (/\ Drained(p)
         /\ ~is_premium[p]
         /\ remaining[p] >= 0
         /\ Len(supported_links[p]) > remaining[p]
         /\ obs[p].failed = 0
         /\ results[p].success = obs[p].delivered)
        => obs[p].charged = remaining[p]

\* C3: the daily count of a non-premium user is incremented exactly once for
\* each item that was downloaded and delivered, and for nothing else: at every
\* moment of a non-premium invocation, charged = delivered.
C3_ChargedOncePerDelivered ==
    \A p \in Procs : ~is_premium[p] => obs[p].charged = obs[p].delivered

\* C4: after /cancel during a drain, the item in flight completes and no further
\* item of that drain is attempted: the drain never moves past the item during
\* which /cancel was sent.
C4_NothingAttemptedAfterCancel ==
    \A p \in Procs : obs[p].cancelled > 0 => i[p] = obs[p].cancelled

\* C5: a failure of one item never stops a drain: while the drain runs, every
\* item before the current one was attempted whatever became of it; when it
\* ends, every supported link was attempted, and every item that failed is
\* among the failed entries of the summary.
C5_FailureNeverStopsDrain ==
    \A p \in Procs :
        /\ InDrain(p) => obs[p].attempted \in {i[p] - 1, i[p]}
        /\ Drained(p) =>
            /\ obs[p].attempted = Len(supported_links[p])
            /\ obs[p].attempted = obs[p].offered
            /\ results[p].failed >= obs[p].failed

\* C5, its case: the first item of a drain has failed and the second is being
\* retrieved.
C5_Witness ==
    \E p \in Procs :
        /\ pc[p] = "dl"
        /\ i[p] = 2
        /\ obs[p].failed = 1
        /\ results[p].success = 0

\* C6: for a batch file, strings that are not links never become tasks: the
\* summary's total is the number of supported links of the file, as many items
\* were attempted, and success + failed = total when the summary is produced
\* (while the drain runs, success + failed is the number of finished items).
C6_BatchTotals ==
    \A p \in Procs :
        handler[p] = "txt" =>
            /\ Drained(p) =>
                /\ results[p].total = obs[p].offered
                /\ results[p].total = obs[p].attempted
                /\ results[p].success + results[p].failed = results[p].total
            /\ pc[p] = "loop" =>
                results[p].success + results[p].failed = i[p] - 1

\* C6, its case: a batch file of a supported link and a string that is none has
\* been drained.
C6_Witness ==
    \E p \in Procs :
        /\ handler[p] = "txt"
        /\ Drained(p)
        /\ obs[p].offered = 1
        /\ results[p].total = 1
        /\ results[p].success = 1

\* C7: a file that a retriever returned no longer exists once its item is
\* finished: every file on disk is the file of an item in flight.
C7_NoFileOutlivesItem ==
    \A u \in Users : \A f \in disk[u] :
        \E p \in Procs : InFlight(p) /\ file_path[p] = f

\* C8: no scratch directory outlives the processing that created it: when an
\* invocation has ended, its user's directory does not exist.
C8_ScratchDirRemoved ==
    \A p \in Procs : pc[p] = "done" => ~dirs[user[p]]

\* The premium record of u has an expiry that is not in the future.
Stale(u) == premium[u] # NoRecord /\ premium[u] <= now

\* The steps in which invocation p calls can_use_bot, is_premium, get_max_size.
CallsCanUseBot(p) == pc[p] = "idle" /\ pc'[p] = "premcheck"
CallsIsPremium(p) == pc[p] = "premcheck" /\ pc'[p] # "premcheck"
CallsGetMaxSize(p) == pc[p] \in {"size", "fsize"} /\ pc'[p] # pc[p]

\* C9: premium implies unlimited: for a user who is premium (an unexpired
\* record, or an owner id) can_use_bot allows the submission whatever the daily
\* count is, and no step of a drain that found its user premium raises that
\* user's daily count or charges a task.
C9_PremiumUnlimited ==
    /\ [](\A p \in Procs : is_premium[p] => obs[p].charged = 0)
    /\ [][\A p \in Procs :
            /\ (CallsCanUseBot(p) /\ (user'[p] \in OWNER_IDS \/
                    (premium[user'[p]] # NoRecord /\ premium[user'[p]] > now)))
                => (can_use'[p] /\ remaining'[p] = -1)
            /\ (InDrain(p) /\ is_premium[p])
                => usage'[user[p]] <= usage[user[p]]]_vars

\* C9, its case: a drain of a premium user has delivered an item while the
\* user's daily count is at the free limit or above.
C9_Witness ==
    \E p \in Procs :
        /\ is_premium[p]
        /\ can_use[p]
        /\ obs[p].delivered > 0
        /\ usage[user[p]] >= FREE_DAILY_LIMIT

\* The free tier is what the call made in this step answered with.
FreeTierAnswer(p) ==
    /\ CallsCanUseBot(p) =>
        /\ can_use'[p] = (usage[user'[p]] < FREE_DAILY_LIMIT)
        /\ remaining'[p] = FREE_DAILY_LIMIT - usage[user'[p]]
    /\ CallsIsPremium(p) => ~is_premium'[p]
    /\ CallsGetMaxSize(p) =>
        (file_size[p] > FREE_MAX_SIZE_MB => pc'[p] \notin {"up", "fup"})

\* C10, as stated: a premium record whose expiry is not in the future behaves as
\* non-premium and is lazily cleared: every check made on it answers with the
\* free tier and leaves no premium record for that user.
C10_ExpiredIsFree ==
    [][\A p \in Procs :
        ((CallsCanUseBot(p) \/ CallsIsPremium(p) \/ CallsGetMaxSize(p))
            /\ Stale(user'[p]))
        => (premium'[user'[p]] = NoRecord /\ FreeTierAnswer(p))]_vars

\* C10, amended: for a user who is not an owner id, a premium record whose
\* expiry is not in the future behaves as non-premium and is lazily cleared:
\* every check made on it answers with the free tier and leaves no premium
\* record for that user.
C10_ExpiredIsFreeUnlessOwner ==
    [][\A p \in Procs :
        ((CallsCanUseBot(p) \/ CallsIsPremium(p) \/ CallsGetMaxSize(p))
            /\ Stale(user'[p]) /\ user'[p] \notin OWNER_IDS)
        => (premium'[user'[p]] = NoRecord /\ FreeTierAnswer(p))]_vars

\* C10, its case: an is_premium call of an invocation of a user who is no owner
\* has removed a stale record, and the invocation goes on as a free one.
C10_Witness ==
    \E p \in Procs :
        /\ obs[p].cleared
        /\ user[p] \notin OWNER_IDS
        /\ premium[user[p]] = NoRecord
        /\ InDrain(p)
        /\ ~is_premium[p]

\* The maximum size, in MB, of the tier user u is in now.
TierLimit(u) ==
    IF u \in OWNER_IDS \/ (premium[u] # NoRecord /\ premium[u] > now)
    THEN PREMIUM_MAX_SIZE_MB ELSE FREE_MAX_SIZE_MB

\* C11: no file larger than the maximum size of the submitting user's tier at
\* the time of the check is passed to the uploader: the size check sends such a
\* file neither to "up" nor to "fup", deletes it, counts its item as failed and
\* lets the drain go on (next item, next folder file, or the end of the drain);
\* a file within the limit goes to the uploader.
C11_OversizeNeverUploaded ==
    [][\A p \in Procs :
        CallsGetMaxSize(p) =>
            IF file_size[p] > TierLimit(user[p])
            THEN /\ pc'[p] \in {"loop", "fdl", "done"}
                 /\ file_path[p] \notin disk'[user[p]]
                 /\ obs'[p].rejected = obs[p].rejected + 1
                 /\ IF pc[p] = "size"
                    THEN results'[p].failed > results[p].failed
                    ELSE \/ folder_results'[p].failed > folder_results[p].failed
                         \/ results'[p].failed > results[p].failed
                 /\ pc'[p] = "done" => i[p] = Len(supported_links[p])
            ELSE pc'[p] \in {"up", "fup"}]_vars

\* C11, its case: the size check has rejected a file of a free user that a
\* premium user could have sent, and the drain has gone on.
C11_Witness ==
    \E p \in Procs :
        /\ obs[p].rejected > 0
        /\ ~is_premium[p]
        /\ pc[p] \in {"fdl", "done"}
        /\ results[p].failed + folder_results[p].failed > 0

\* C12: a user's settings record is written or reset only at a moment when
\* that user is premium (an unexpired record, or an owner id).
C12_SettingsWrittenOnlyWhilePremium ==
    [][\A u \in Users :
        settings'[u] # settings[u] =>
            (u \in OWNER_IDS \/ (premium[u] # NoRecord /\ premium[u] > now))]_vars

\* C13: a URL is classified hosted-drive or file-locker only when its domain
\* is in that kind's allow-list, generic-direct only when its path ends in a
\* known extension, and a URL with no recognized domain and no recognized
\* extension is unsupported and never becomes a task.
C13_ClassifiedByDomain ==
    /\ cl_kind \in {"gdrive", "terabox"} => cl_url.domain = cl_kind
    /\ cl_kind = "direct" => cl_url.ext
    /\ (cl_url.domain = "other" /\ ~cl_url.ext) =>
            (cl_kind = "unsupported" /\ ~cl_task)

\* ---------------------------------------------------------- the retriever
\* The last call saved a file the response named.
NamedSave ==
    /\ dl_call.entry # "none"
    /\ dl_call.response.cd # NoName
    /\ dl_result.success

\* The name the retriever reads from the header of the last call.
HeaderName == sanitize_filename(dl_call.response.cd)

\* The returned path did not exist when the call was made, and every lower
\* counter of its name did.
FreshPath ==
    /\ dl_result.file_path \notin dl_call.before
    /\ \A k \in 0..(dl_result.file_path.n - 1) :
        FilePath(dl_result.file_path.name, k) \in dl_call.before

LeftBehind == {p \in Paths : Exists(dl_dir, p)} \ dl_call.before

\* The last call got a response with an accepted status whose body is HTML,
\* whatever content type it declares.
HtmlAnswered ==
    /\ dl_call.entry # "none"
    /\ dl_call.response.raised = "no"
    /\ dl_call.response.status \in {200, 206}
    /\ dl_call.response.body = "html"

\* C15: a response whose body is an HTML page, by its content type or by its
\* bytes, makes the retrieval fail and leaves no file in the directory.
C15_HtmlBodyIsFailure ==
    HtmlAnswered => ~dl_result.success /\ LeftBehind = {}

\* The two shapes of a result: a path of a file that exists and is not empty, or
\* no path and a reason.
ResultShape ==
    \/ /\ dl_result.success
       /\ dl_result.file_path.kind = "file"
       /\ Exists(dl_dir, dl_result.file_path)
       /\ dl_dir[dl_result.file_path] # "empty"
    \/ /\ ~dl_result.success
       /\ dl_result.file_path = NoPath
       /\ dl_result.error # "None"

\* C16: when an entry point of the retriever returns, what it returns has one of
\* the two shapes (a failure is a returned value: every action of the entry
\* points ends in Returns).
C16_ResultShapes == [][dl_call' # dl_call => ResultShape']_vars

\* ------------------------------------------------ the progress reporter
\* C17: should_update returns true on the first call, false on a call made less
\* than 8 seconds after the last call that returned true, and true on a call
\* made 8 seconds or more after it; so two calls that return true are at least
\* 8 seconds apart.
C17_TrueOncePerInterval ==
    [][pr_obs'.flip # pr_obs.flip =>
        /\ ~pr_obs.called => should_update'
        /\ pr_obs.true_at # Never =>
            should_update' = (clock - pr_obs.true_at >= 8)
        /\ pr_obs'.prev_true_at # Never =>
            pr_obs'.true_at - pr_obs'.prev_true_at >= 8]_vars

\* a call returned false, and the call made exactly 8 seconds after the one
\* that returned true returned true again
C17_Witness ==
    /\ should_update
    /\ pr_obs.suppressed
    /\ pr_obs.prev_true_at # Never
    /\ pr_obs.true_at = pr_obs.prev_true_at + 8
    /\ clock = pr_obs.true_at

\* --------------------------------------------------------- the uploader
\* The last call of upload_file found the file and made its sends.
Sent == up_call.called /\ up_call.sends # <<>>

\* The outcome of the last send decides the result, and a failed first send of
\* a specific shape is followed by one send_document and nothing more.
FallsBackOnce ==
    /\ Len(up_call.sends) <= 2
    /\ up_result.success = up_call.sends[Len(up_call.sends)].ok
    /\ \A k \in 1..Len(up_call.sends) :
        up_call.sends[k].ok => k = Len(up_call.sends)
    /\ Len(up_call.sends) = 2 =>
        /\ up_call.sends[1].shape # "send_document"
        /\ up_call.sends[2].shape = "send_document"
    /\ (~up_call.sends[1].ok /\ up_call.sends[1].shape # "send_document") =>
        Len(up_call.sends) = 2

\* C18 as stated: a video, an audio file or an image is first sent in its own
\* shape, then once as a document if that fails, and the upload succeeds exactly
\* if one of the sends does.
C18_SpecificThenDocumentOnce ==
    (Sent /\ up_call.file_type \in {"video", "audio", "image"}) =>
        /\ up_call.sends[1].shape # "send_document"
        /\ FallsBackOnce

\* C18: a video, an audio file or an image under 10 MB is first sent in its own
\* shape, then once as a document if that fails; an image of 10 MB or more and
\* a file of another kind are sent as a document, once; the upload succeeds
\* exactly if the last send does.
C18_FallsBackToDocumentOnce ==
    Sent =>
        /\ (up_call.sends[1].shape = "send_document") =
            \/ up_call.file_type = "document"
            \/ up_call.file_type = "image" /\ up_call.file_size >= 10
        /\ FallsBackOnce

\* a video was refused as a video and accepted as a document
C18_Witness ==
    /\ Sent
    /\ up_call.file_type = "video"
    /\ up_call.sends = <<Send("send_video", FALSE), Send("send_document", TRUE)>>
    /\ up_result.success

\* C19: once upload_file has returned, no generated thumbnail is on disk, and a
\* custom thumbnail that was there is there still.
C19_NoGeneratedThumbnailLeft ==
    up_call.called =>
        /\ "generated" \notin thumbs
        /\ "custom" \in up_call.before => "custom" \in thumbs

\* -------------------------------------------------------------- startup
\* C20: if a connect of startup failed, the bot is not started and no message is
\* handled while a store is unconnected.
C20_StartupAbortsWithoutStore ==
    /\ (\E s \in Stores : connected[s] = "False") =>
        ~bot_running /\ main_pc \notin {"startup_message", "idle", "stopped"}
    /\ handled.unconnected = 0

\* ------------------------------------------------------ the inter-item delay
\* A step of invocation p that ends a single-file item of its loop.
EndsItem(p) == pc[p] \in {"dl", "size", "up"} /\ pc'[p] \in {"loop", "done"}

\* The items the results of p count as finished.
Counted(res) == res.success + res.failed

\* C21: the delay after an item leaves the counts of the item alone: a step that
\* ends a single-file item adds one to success + failed, and no more.
C21_DelayKeepsCounts ==
    [][\A p \in Procs : EndsItem(p) =>
            Counted(results'[p]) = Counted(results[p]) + 1]_vars

\* ---------------------------------------------------------- the summary
\* C27: when the summary of a message of links is produced, every item is in
\* exactly one of success and failed: success + failed = total.
C27_SummaryAddsUp ==
    \A p \in Procs :
        (pc[p] = "done" /\ handler[p] = "links") =>
            results[p].success + results[p].failed = results[p].total

\* ------------------------------------------------------- file ownership
\* C22: while a task holds a retrieved file (its size is being checked, it is
\* being uploaded), the file and the scratch directory it lies in exist: nobody
\* but the task, or the end of its own drain, removes them.
C22_FileOwnedByItsTask ==
    \A p \in Procs :
        InFlight(p) => dirs[user[p]] /\ file_path[p] \in disk[user[p]]

\* ------------------------------------------- the file locker's strategies
\* The last call was download_terabox.
TeraboxCalled == dl_call.entry = "download_terabox"

\* The steps of the last call that are of one kind.
StepsOf(kind) == {k \in 1..Len(tb_steps) : tb_steps[k].kind = kind}

\* The steps come in the fixed order: probes of the bases in their declared order,
\* each with and then without the leading 1, up to the first errno 0; then at
\* most one scrape; then one stream download, of the normalized URL only if no
\* step before it yielded a link that starts with http.  A step is made only
\* if no step before it yielded such a link.
FixedOrder ==
    /\ \A k \in StepsOf("api") :
        /\ \A j \in 1..k : tb_steps[j].kind = "api"
        /\ k <= 8
        /\ tb_steps[k].target.base =
            <<"www.terabox.com", "www.terabox.com",
              "www.1024tera.com", "www.1024tera.com",
              "teraboxapp.com", "teraboxapp.com",
              "www.nephobox.com", "www.nephobox.com">>[k]
        /\ tb_steps[k].target.one = (k \in {1, 3, 5, 7})
        /\ tb_steps[k].errno0 => \A j \in StepsOf("api") : j <= k
    /\ (\A k \in StepsOf("api") : ~tb_steps[k].errno0) => Cardinality(StepsOf("api")) = 8
    /\ Cardinality(StepsOf("scrape")) <= 1
    /\ Cardinality(StepsOf("stream")) = 1
    /\ \A k \in StepsOf("stream") : k = Len(tb_steps)
    /\ \A k \in StepsOf("scrape") : k = Len(tb_steps) - 1
    /\ \A k \in StepsOf("scrape") \cup StepsOf("stream") :
        /\ tb_steps[k].target = "normalized" =>
            \A j \in 1..(k - 1) : tb_steps[j].got # "http..."
        /\ tb_steps[k].kind = "scrape" =>
            \A j \in 1..(k - 1) : tb_steps[j].got # "http..."

\* C23 as stated: for every file-locker link the strategies run in the fixed
\* order and exactly one stream download is attempted.
C23_StrategiesInOrder == TeraboxCalled => FixedOrder

\* C23: for a file-locker link that is not taken for a folder and that has a
\* share code, the strategies run in the fixed order and exactly one stream
\* download is attempted; for a folder link or a link with no share code no
\* strategy runs and nothing is downloaded.
C23_StrategiesInOrderGivenCode ==
    TeraboxCalled =>
        IF dl_result.file_path = FolderMarker
           \/ dl_result.error = "Could not extract share code from URL"
        THEN tb_steps = <<>>
        ELSE FixedOrder

\* no endpoint answered with errno 0, the page gave no link, and the normalized
\* URL was streamed
C23_Witness ==
    /\ TeraboxCalled
    /\ Len(tb_steps) = 10
    /\ tb_steps[9].kind = "scrape"
    /\ tb_steps[10].target = "normalized"
    /\ dl_result.success

\* ------------------------------------------------------------- bans
\* C26: from ban_user(u) until unban_user(u), is_user_banned(u) is true, and a
\* /start or submission of u that arrives meanwhile, the database answering, is
\* rejected.
C26_BanStandsUntilUnban ==
    /\ \A u \in Users : ban_standing[u] => is_user_banned(users, u, TRUE)
    /\ arrival.standing /\ arrival.db_ok => arrival.rejected

\* ------------------------------------------------------- the folder tests
\* C29: on every file-locker link that becomes a task, the handler takes the
\* link for a folder exactly when download_terabox would return the folder
\* marker for it.
C29_FolderTestsAgree ==
    (cl_task /\ cl_kind = "terabox") =>
        (HandlerIsFolder(cl_url) <=> RetrieverIsFolder(cl_url))

\* ------------------------------------------------ the failed retrieval
\* C30: a call of the retriever that returns a failure leaves in the directory
\* no file that was not there before the call.
C30_FailureLeavesNoFile ==
    (dl_call.entry # "none" /\ ~dl_result.success) => LeftBehind = {}

\* ------------------------------------------------------------- pins
\* C28: when the processing of a submission ends, by any path, its status
\* message is not pinned, unless the unpin itself raised.
C28_UnpinnedAtEnd ==
    (sub_pc = "ended" /\ ~sub.unpin_raised) => ~status_pinned

\* ------------------------------------------------------------- the ETA
\* The total is unknown, or the speed is 0.
NoEstimate ==
    \/ eta_args.total = 0
    \/ eta_args.current = 0
    \/ eta_args.elapsed = 0

\* C24 as stated: the eta computed is 0 whenever the total is unknown or the
\* speed is 0, and it is never negative.
C24_EtaZeroOrPositive ==
    eta_args.shown => (NoEstimate => eta = 0) /\ eta >= 0

\* C24: the ETA a progress message shows is "0s" whenever the total is unknown
\* or the speed is 0, and it is never negative; the eta computed is 0 when the
\* speed is 0.
C24_ShownEtaZeroOrPositive ==
    eta_args.shown =>
        /\ NoEstimate => eta_text = <<0, "s">>
        /\ \A k \in {1, 3} \cap DOMAIN eta_text : eta_text[k] >= 0
        /\ (eta_args.current = 0 \/ eta_args.elapsed = 0) => eta = 0

\* the total is unknown, bytes came in for some seconds, and the message shows 0s
C24_Witness ==
    /\ eta_args.shown
    /\ eta_args.total = 0
    /\ eta_args.current > 0
    /\ eta_args.elapsed > 0
    /\ eta < 0
    /\ eta_text = <<0, "s">>

\* --------------------------------------------------------- the daily count
\* C25: the count stored for the day of a user who is not premium never exceeds
\* the free daily limit.
C25_UsageWithinDailyLimit ==
    \A u \in Users \ OWNER_IDS : ~IsPremium(u) => usage[u] <= FREE_DAILY_LIMIT
====
